---- MODULE Spec2Model ----
(***************************************************************************)
(* URL-analyse: the Stage-1 decision pipeline (RuleEngine -> RAG           *)
(* similarity shortcut -> Classifier + ResponseAnalyzer) and the           *)
(* ResultStatistics evaluation harness, as a state machine.                *)
(*                                                                         *)
(* Text is a sequence of chunks (strings).  Classifier responses are made  *)
(* of one-character chunks so that strip/split/indexing act on them as in  *)
(* Python; fixed words of the code ("none", "unknown", "similar_", a       *)
(* label, an attack type) are one chunk each.  Python's None, where a text *)
(* is expected, is the empty sequence.  Similarity scores are integers in  *)
(* percent (0.85 is 85).  Elapsed times and the free-text 'reason' of a    *)
(* result are not modelled.                                                *)
(***************************************************************************)
EXTENDS Integers, Sequences, FiniteSets, TLC

VARIABLES
    enabled,          \* RuleEngine.enabled
    normal_rules,     \* RuleEngine.normal_rules
    anomalous_rules,  \* RuleEngine.anomalous_rules
    use_rag,          \* HybridDetector.use_rag
    rag_engine,       \* HybridDetector.rag_engine is not None
    rag_config,       \* HybridDetector.rag_config (a dict: keys may be absent)
    index,            \* VectorStore.index: [present, vectors]
    metadata,         \* VectorStore.metadata
    file,             \* the data file process_file is reading: "normal" / "attack"
    all_results,      \* the Stage-1 results collected so far
    last,             \* what the most recent detect call did
    report,           \* what analyze_results produced
    pc,               \* where the run is: "stage1", "done", "crashed", ...
    raw_response,     \* the text handed to the ResponseAnalyzer
    parse_result,     \* what the ResponseAnalyzer returned for it
    deep_input,       \* batch_analyze: anomalous_results
    deep_results,     \* batch_analyze: deep_results
    deep_calls,       \* Classifier calls made by batch_analyze
    store_files,      \* the persisted vector library: index file and metadata file
    search_result,    \* what the most recent retrieval query did
    options,          \* the configuration's model.fast_detection and rag options
    rule_files,       \* the rule files load_rule_engine reads
    rule_verdict,     \* what the most recent RuleEngine.detect returned
    file_results,     \* process_file: the results list of the call in progress
    returned,         \* the lists process_file has returned to main so far
    good_results,     \* main: the name good_results
    bad_results       \* main: the name bad_results

vars == <<enabled, normal_rules, anomalous_rules, use_rag, rag_engine, rag_config,
          index, metadata, file, all_results, last, report, pc, raw_response, parse_result,
          deep_input, deep_results, deep_calls, store_files, search_result,
          options, rule_files, rule_verdict,
          file_results, returned, good_results, bad_results>>

config_vars == <<enabled, normal_rules, anomalous_rules, use_rag, rag_engine,
                 rag_config, index, metadata>>

run_vars == <<file, all_results, last, report>>

parser_vars == <<raw_response, parse_result>>

deep_vars == <<deep_input, deep_results, deep_calls>>

store_vars == <<store_files, search_result>>

setup_vars == <<options, rule_files, rule_verdict>>

main_vars == <<file_results, returned, good_results, bad_results>>

----------------------------------------------------------------------------
(* Bounds and program constants *)

MaxUrls == 2            \* URLs processed in one run (both files together)
MaxResponseLen == 3     \* characters of a response handed to the parser
MaxSections == 2        \* headed sections of a deep-analysis response
MaxBatch == 2           \* results handed to batch_analyze
MaxFolder == 2          \* texts in one folder added to the vector library
MaxRules == 3           \* rules in one rule file
MaxLines == 3        \* lines of a data file in a run of main
MaxVectors == 3         \* vectors in the index, records in the metadata

DeepRagTopK == 5        \* deep_config.get('rag_top_k', 5)
KeptCases == 5          \* similar_cases[:5] kept in a deep-analysis result

DefaultTopK == 3        \* rag_config.get('top_k', 3)
DefaultThreshold == 85  \* rag_config.get('similarity_threshold', 0.85)
PromptCases == 3        \* similar_cases[:3] in the RAG-enhanced prompt

----------------------------------------------------------------------------
(* Text *)

NONE == <<"none">>
UNKNOWN == <<"unknown">>
P0 == <<"0">>
P1 == <<"1">>
NoText == <<>>

Whitespace == {" ", "\t", "\n"}

RECURSIVE LStrip(_)
LStrip(t) == IF t # <<>> /\ Head(t) \in Whitespace THEN LStrip(Tail(t)) ELSE t

RECURSIVE RStrip(_)
RStrip(t) ==
    IF t # <<>> /\ t[Len(t)] \in Whitespace THEN RStrip(SubSeq(t, 1, Len(t) - 1)) ELSE t

\* str.strip()
Strip(t) == RStrip(LStrip(t))

\* sep in text
Contains(t, sep) == \E i \in 1..Len(t) : t[i] = sep

\* str.split(sep): the list of parts between the separators
RECURSIVE SplitFrom(_, _, _)
SplitFrom(t, sep, cur) ==
    IF t = <<>> THEN <<cur>>
    ELSE IF Head(t) = sep THEN <<cur>> \o SplitFrom(Tail(t), sep, <<>>)
    ELSE SplitFrom(Tail(t), sep, Append(cur, Head(t)))

Split(t, sep) == SplitFrom(t, sep, <<>>)

----------------------------------------------------------------------------
(* The URLs of the data files and the rule files *)

\* URL 1 matches anomalous rule A1 only; URL 2 matches A1, A2 and normal rule N1;
\* URL 3 matches N1 and N2; URLs 4..7 match no rule.
Urls == 1..7

AnomalousRulesConfig ==
    << [id |-> "A1", name |-> "sqli-or", pattern |-> {1, 2}, attack_type |-> <<"sql_injection">>],
       [id |-> "A2", name |-> "script-tag", pattern |-> {2}, attack_type |-> <<"xss">>] >>

NormalRulesConfig ==
    << [id |-> "N1", name |-> "static", pattern |-> {2, 3}, attack_type |-> <<"static_resource">>],
       [id |-> "N2", name |-> "image", pattern |-> {3}, attack_type |-> NONE] >>

\* The same rule files written without the 'id' key on their first rule
AnomalousRulesNoId ==
    << [name |-> "sqli-or", pattern |-> {1, 2}, attack_type |-> <<"sql_injection">>],
       [id |-> "A2", name |-> "script-tag", pattern |-> {2}, attack_type |-> <<"xss">>] >>

NormalRulesNoId ==
    << [name |-> "static", pattern |-> {2, 3}, attack_type |-> <<"static_resource">>],
       [id |-> "N2", name |-> "image", pattern |-> {3}, attack_type |-> NONE] >>

\* The rule files a run may be configured with: (anomalous rules, normal rules)
RuleFiles ==
    { <<AnomalousRulesConfig, NormalRulesConfig>>, <<AnomalousRulesNoId, NormalRulesNoId>> }

\* Rule.__init__; a compiled pattern is the set of URLs it finds a match in
Rule(rule_id, name, pattern, attack_type) ==
    [rule_id |-> rule_id, name |-> name, pattern |-> pattern, attack_type |-> attack_type]

\* A pattern text re.compile rejects (no URL is 0), and re.compile succeeding
BadPattern == {0}
Compiles(pattern) == pattern # BadPattern

\* RuleEngine.load_anomalous_rules / load_normal_rules from rule i on, under the
\* try of load_rule_engine: config.get('id', ''); Rule.__init__ compiles the
\* pattern, and its re.error leaves the loop with the rules added so far
RECURSIVE LoadRulesFrom(_, _)
LoadRulesFrom(rules_config, i) ==
    IF i > Len(rules_config) THEN <<>>
    ELSE IF ~Compiles(rules_config[i].pattern) THEN <<>>
    ELSE << Rule(IF "id" \in DOMAIN rules_config[i] THEN rules_config[i].id ELSE "",
                 rules_config[i].name, rules_config[i].pattern,
                 rules_config[i].attack_type) >>
         \o LoadRulesFrom(rules_config, i + 1)

LoadRules(rules_config) == LoadRulesFrom(rules_config, 1)

----------------------------------------------------------------------------
(* RuleEngine *)

\* Rule.match: the match dict, or None (the empty sequence)
Match(rule, url) ==
    IF url \in rule.pattern
    THEN << [rule_id |-> rule.rule_id, rule_name |-> rule.name,
             attack_type |-> rule.attack_type] >>
    ELSE <<>>

\* Variant: the match of the last matching rule of the list
RECURSIVE LastMatch(_, _)
LastMatch(rules, url) ==
    IF rules = <<>> THEN <<>>
    ELSE IF LastMatch(Tail(rules), url) # <<>> THEN LastMatch(Tail(rules), url)
    ELSE Match(Head(rules), url)

\* for rule in rules: result = rule.match(url); if result: return [result]
RECURSIVE FirstMatch(_, _)
FirstMatch(rules, url) ==
    IF rules = <<>> THEN <<>>
    ELSE IF Match(Head(rules), url) # <<>> THEN Match(Head(rules), url)
    ELSE FirstMatch(Tail(rules), url)

\* A mutant of RuleEngine.detect: the normal rules are consulted first
RuleEngineDetectNormalFirst(url) ==
    IF ~enabled THEN [prediction |-> NoText, matched_rules |-> <<>>, rule_type |-> "none"]
    ELSE IF FirstMatch(normal_rules, url) # <<>>
    THEN [prediction |-> P0, matched_rules |-> FirstMatch(normal_rules, url),
          rule_type |-> "normal"]
    ELSE IF FirstMatch(anomalous_rules, url) # <<>>
    THEN [prediction |-> P1, matched_rules |-> FirstMatch(anomalous_rules, url),
          rule_type |-> "anomalous"]
    ELSE [prediction |-> NoText, matched_rules |-> <<>>, rule_type |-> "none"]

\* RuleEngine.detect: anomalous rules first, then normal rules
RuleEngineDetect(url) ==
    IF ~enabled THEN [prediction |-> NoText, matched_rules |-> <<>>, rule_type |-> "none"]
    ELSE IF FirstMatch(anomalous_rules, url) # <<>>
    THEN [prediction |-> P1, matched_rules |-> FirstMatch(anomalous_rules, url),
          rule_type |-> "anomalous"]
    ELSE IF FirstMatch(normal_rules, url) # <<>>
    THEN [prediction |-> P0, matched_rules |-> FirstMatch(normal_rules, url),
          rule_type |-> "normal"]
    ELSE [prediction |-> NoText, matched_rules |-> <<>>, rule_type |-> "none"]

\* RuleEngine.check
RuleEngineCheck(url) ==
    LET d == RuleEngineDetect(url) IN
    IF d.rule_type = "none" THEN [matched |-> FALSE, rules |-> <<>>]
    ELSE IF d.rule_type = "normal"
    THEN [matched |-> TRUE, is_normal |-> TRUE, rules |-> d.matched_rules]
    ELSE [matched |-> TRUE, is_normal |-> FALSE, rules |-> d.matched_rules]

----------------------------------------------------------------------------
(* VectorStore and RAGEngine *)

\* The persisted vector library: URL cases (add_url_history_folder: the label is
\* the file name) and one knowledge chunk (add_knowledge_documents)
PersistedMetadata ==
    << [type |-> "url_case", url |-> <<"case-a">>, label |-> <<"attack">>],
       [type |-> "knowledge", attack_id |-> <<"sqli">>, source |-> <<"sqli.txt">>],
       [type |-> "url_case", url |-> <<"case-n">>, label |-> <<"normal">>],
       [type |-> "url_case", url |-> <<"case-s">>, label |-> <<"sqli">>] >>

\* The texts a library is made of: the persisted ones and a second knowledge
\* chunk; a text is named by its position here, and this is the metadata record
\* add_url_history_folder / add_knowledge_documents write for it
LibraryTexts ==
    PersistedMetadata \o
    << [type |-> "knowledge", attack_id |-> <<"xss">>, source |-> <<"xss.txt">>] >>

CaseTexts == {t \in 1..Len(LibraryTexts) : LibraryTexts[t].type = "url_case"}
KnowledgeTexts == {t \in 1..Len(LibraryTexts) : LibraryTexts[t].type = "knowledge"}

\* The index holds one vector per added text, in insertion order (a vector is
\* named by its text); index.ntotal is Len(index.vectors)
PersistedVectors == [i \in 1..Len(PersistedMetadata) |-> i]
NoIndex == [present |-> FALSE, vectors |-> <<>>]
PersistedIndex == [present |-> TRUE, vectors |-> PersistedVectors]

\* Inner product of the query URL's embedding with the vector of each text (the
\* Embedder is an external collaborator), in percent
SimilarityTable ==
    << <<90, 50, 40, 60, 20>>,
       <<40, 30, 50, 88, 30>>,
       <<30, 20, 95, 10, 40>>,
       <<90, 99, 60, 70, 10>>,
       <<70, 10, 60, 85, 50>>,
       <<50, 10, 90, 60, 70>>,
       <<84, 10, 80, 84, 10>> >>

\* np.dot(query_embedding, vector) for the vector stored at position pos
Similarity(url, pos) == SimilarityTable[url][index.vectors[pos]]

\* np.argsort: the positions of s by ascending value
RECURSIVE ArgsortRem(_, _)
ArgsortRem(s, remaining) ==
    IF remaining = {} THEN <<>>
    ELSE LET m == CHOOSE i \in remaining :
                      \A j \in remaining : s[i] < s[j] \/ (s[i] = s[j] /\ i <= j)
         IN <<m>> \o ArgsortRem(s, remaining \ {m})

Argsort(s) == ArgsortRem(s, 1..Len(s))

\* seq[::-1]
Reverse(s) == [i \in 1..Len(s) |-> s[Len(s) + 1 - i]]

\* seq[:k]
Take(s, k) == SubSeq(s, 1, IF Len(s) < k THEN Len(s) ELSE k)

\* Variant: every position of the metadata, whatever its type
RECURSIVE IndicesOfAnyType(_, _)
IndicesOfAnyType(tag, i) ==
    IF i > Len(metadata) THEN <<>>
    ELSE <<i>> \o IndicesOfAnyType(tag, i + 1)

\* [i for i, m in enumerate(self.metadata) if m.get('type') == tag]
RECURSIVE IndicesOfType(_, _)
IndicesOfType(tag, i) ==
    IF i > Len(metadata) THEN <<>>
    ELSE IF "type" \in DOMAIN metadata[i] /\ metadata[i].type = tag
    THEN <<i>> \o IndicesOfType(tag, i + 1)
    ELSE IndicesOfType(tag, i + 1)

\* VectorStore.search_in_url_cases_only: [(original index, similarity)]
SearchInUrlCasesOnly(url, top_k) ==
    IF ~index.present THEN <<>>
    ELSE LET url_indices == IndicesOfType("url_case", 1) IN
         IF url_indices = <<>> THEN <<>>
         ELSE LET similarities == [k \in 1..Len(url_indices) |-> Similarity(url, url_indices[k])]
                  top_indices == Take(Reverse(Argsort(similarities)), top_k)
              IN [k \in 1..Len(top_indices) |->
                    [idx |-> url_indices[top_indices[k]],
                     score |-> similarities[top_indices[k]]]]

\* RAGEngine.retrieve_similar_cases
RetrieveSimilarCases(url, top_k) ==
    IF ~index.present THEN <<>>
    ELSE LET search_results == SearchInUrlCasesOnly(url, top_k) IN
         [k \in 1..Len(search_results) |->
            [url |-> metadata[search_results[k].idx].url,
             label |-> metadata[search_results[k].idx].label,
             similarity_score |-> search_results[k].score]]

\* np.argsort leaves the order of equal values open (its default sort is not
\* stable): every ascending order of the positions of s.  Argsort(s), the order
\* of a stable sort, is one of them.
RECURSIVE ArgsortsRem(_, _)
ArgsortsRem(s, remaining) ==
    IF remaining = {} THEN {<<>>}
    ELSE UNION { { <<m>> \o rest : rest \in ArgsortsRem(s, remaining \ {m}) } :
                 m \in {i \in remaining : \A j \in remaining : s[i] <= s[j]} }

Argsorts(s) == ArgsortsRem(s, 1..Len(s))

\* all_vectors[i] for i in the tagged positions: an IndexError when a tagged
\* metadata position has no vector in the index
SearchRaises(tag) ==
    LET indices == IndicesOfType(tag, 1) IN
    /\ index.present
    /\ \E k \in 1..Len(indices) : indices[k] > Len(index.vectors)

\* The body search_in_url_cases_only and search_in_knowledge_only share, for
\* the metadata tag each filters by: the possible outcomes of one query
SearchOutcomes(tag, url, top_k) ==
    IF ~index.present THEN {[raised |-> FALSE, results |-> <<>>]}
    ELSE LET indices == IndicesOfType(tag, 1) IN
         IF indices = <<>> THEN {[raised |-> FALSE, results |-> <<>>]}
         ELSE IF SearchRaises(tag) THEN {[raised |-> TRUE, results |-> <<>>]}
         ELSE LET similarities == [k \in 1..Len(indices) |-> Similarity(url, indices[k])] IN
              { [raised |-> FALSE,
                 results |-> LET top_indices == Take(Reverse(order), top_k) IN
                             [k \in 1..Len(top_indices) |->
                                [idx |-> indices[top_indices[k]],
                                 score |-> similarities[top_indices[k]]]]] :
                order \in Argsorts(similarities) }

\* VectorStore.search_in_knowledge_only
SearchInKnowledgeOnly(url, top_k) == SearchOutcomes("knowledge", url, top_k)

\* The persisted library: each file is missing, unreadable or holds its content
MissingFile == [state |-> "missing", content |-> <<>>]
CorruptFile == [state |-> "corrupt", content |-> <<>>]
StoredFile(content) == [state |-> "ok", content |-> content]
PersistedFiles ==
    [index |-> StoredFile(PersistedVectors), metadata |-> StoredFile(PersistedMetadata)]

\* VectorStore.load on a new store: the index is read first, then the metadata;
\* a file that cannot be read raises and what was assigned before it stays
Load(files) ==
    IF files.index.state # "ok"
    THEN [index |-> NoIndex, metadata |-> <<>>, raised |-> TRUE]
    ELSE IF files.metadata.state # "ok"
    THEN [index |-> [present |-> TRUE, vectors |-> files.index.content],
          metadata |-> <<>>, raised |-> TRUE]
    ELSE [index |-> [present |-> TRUE, vectors |-> files.index.content],
          metadata |-> files.metadata.content, raised |-> FALSE]

\* RAGEngine._init_vector_store: load only when both files exist; an exception
\* of load is caught and printed
LoadedStore(files) ==
    IF files.index.state # "missing" /\ files.metadata.state # "missing"
    THEN Load(files)
    ELSE [index |-> NoIndex, metadata |-> <<>>, raised |-> FALSE]

----------------------------------------------------------------------------
(* ResponseAnalyzer *)

\* The Classifier's answers (one-character chunks): "0", "1", "1|x" and "x"
Responses == { <<"0">>, <<"1">>, <<"1", "|", "x">>, <<"x">> }

\* A mutant: the parsed label is returned without the final validity check
ParseFastNoValidation(text) ==
    LET r == Strip(text)
        parts == Split(r, "|")
        predicted == IF Contains(r, "|") THEN Strip(parts[1])
                     ELSE IF r # <<>> THEN <<r[1]>> ELSE P0
        attack_type == IF Contains(r, "|")
                       THEN (IF Len(parts) > 1 THEN Strip(parts[2]) ELSE UNKNOWN)
                       ELSE (IF predicted = P0 THEN NONE ELSE UNKNOWN)
    IN [predicted |-> predicted, attack_type |-> attack_type]

\* ResponseAnalyzer.parse_fast_detection_response
ParseFastDetectionResponse(text) ==
    LET r == Strip(text)
        parts == Split(r, "|")
        predicted == IF Contains(r, "|") THEN Strip(parts[1])
                     ELSE IF r # <<>> THEN <<r[1]>> ELSE P0
        attack_type == IF Contains(r, "|")
                       THEN (IF Len(parts) > 1 THEN Strip(parts[2]) ELSE UNKNOWN)
                       ELSE (IF predicted = P0 THEN NONE ELSE UNKNOWN)
    IN [predicted |-> IF predicted \notin {P0, P1} THEN P0 ELSE predicted,
        attack_type |-> attack_type]

\* str.split(sep, 1): the part before the first separator and the rest
RECURSIVE Before(_, _)
Before(t, sep) ==
    IF t = <<>> \/ Head(t) = sep THEN <<>> ELSE <<Head(t)>> \o Before(Tail(t), sep)

After(t, sep) == SubSeq(t, Len(Before(t, sep)) + 2, Len(t))

\* ResponseAnalyzer.parse_lora_response, for a response without the chat
\* markers <|im_start|>assistant and <|im_end|> (no caller in the repository)
ParseLoraResponse(text) ==
    LET r == Strip(text)
        label == IF Contains(r, "|") THEN Strip(Before(r, "|"))
                 ELSE IF r # <<>> THEN <<r[1]>> ELSE P0
        threat_type == IF Contains(r, "|") THEN Strip(After(r, "|"))
                       ELSE IF label = P1 THEN UNKNOWN ELSE <<"benign">>
    IN [predicted |-> IF label = P0 THEN P0 ELSE P1, attack_type |-> threat_type]

\* The keys of a deep-analysis report.  In a response text the chunk "##" is
\* the heading marker and the chunk named like a key is that section's Chinese
\* heading text (the chunk "attack_type" is the heading of the attack_type
\* section, and so on)
ReportKeys ==
    {"attack_type", "summary", "behavior", "cause", "evidence", "risk", "recommendation"}

\* \s* from position i: the last position of the whitespace run that starts
\* at i (i - 1 if there is none)
RECURSIVE SpaceRunEnd(_, _)
SpaceRunEnd(t, i) ==
    IF i <= Len(t) /\ t[i] \in Whitespace THEN SpaceRunEnd(t, i + 1) ELSE i - 1

MaxOf(S) == CHOOSE x \in S : \A y \in S : y <= x

\* ##\s*<heading>\s*\n matched at position i: the position after the match, or
\* 0 if it does not match there.  \s* is greedy, so the \n matched is the last
\* newline of the whitespace run that follows the heading text.
HeadingEnd(t, key, i) ==
    IF t[i] # "##" THEN 0
    ELSE LET a == SpaceRunEnd(t, i + 1) IN
         IF a + 1 > Len(t) \/ t[a + 1] # key THEN 0
         ELSE LET b == SpaceRunEnd(t, a + 2)
                  newlines == {k \in (a + 2)..b : t[k] = "\n"}
              IN IF newlines = {} THEN 0 ELSE MaxOf(newlines) + 1

\* (.*?)(?=\n##|\Z) from position start: the captured text runs to the first
\* position followed by a newline and "##", or to the end of the text
RECURSIVE CaptureEnd(_, _)
CaptureEnd(t, e) ==
    IF e >= Len(t) \/ (e + 2 <= Len(t) /\ t[e + 1] = "\n" /\ t[e + 2] = "##") THEN e
    ELSE CaptureEnd(t, e + 1)

\* re.search(pattern, response, re.DOTALL) for one section, then
\* match.group(1).strip(); the empty string if the pattern is not found
Section(t, key) ==
    LET found == {i \in 1..Len(t) : HeadingEnd(t, key, i) # 0} IN
    IF found = {} THEN NoText
    ELSE LET start == HeadingEnd(t, key, CHOOSE i \in found : \A j \in found : i <= j)
         IN Strip(SubSeq(t, start, CaptureEnd(t, start - 1)))

\* ResponseAnalyzer.parse_deep_analysis_response
ParseDeepAnalysisResponse(t) ==
    [key \in ReportKeys |-> Section(t, key)]

----------------------------------------------------------------------------
(* HybridDetector *)

\* dict.get(key, default)
Get(d, key, default) == IF key \in DOMAIN d THEN d[key] ELSE default

\* "1" if best_case['label'] == 'attack' else "0"
ShortcutPredicted(label) == IF label = <<"attack">> THEN P1 ELSE P0

\* HybridDetector._check_rag_similarity
CheckRagSimilarity(url) ==
    IF ~rag_engine THEN [matched |-> FALSE]
    ELSE LET top_k == Get(rag_config, "top_k", DefaultTopK)
             threshold == Get(rag_config, "similarity_threshold", DefaultThreshold)
             similar_cases == RetrieveSimilarCases(url, top_k)
         IN IF similar_cases = <<>> THEN [matched |-> FALSE]
            ELSE LET best_case == similar_cases[1] IN
                 IF best_case.similarity_score >= threshold
                 THEN [matched |-> TRUE,
                       predicted |-> ShortcutPredicted(best_case.label),
                       attack_type |-> <<"similar_">> \o best_case.label,
                       similar_cases |-> similar_cases,
                       confidence |-> best_case.similarity_score]
                 ELSE [matched |-> FALSE, similar_cases |-> similar_cases]

\* What one detect call did: the result it returned (none if it raised), the
\* number of Classifier calls and retrieval queries it made, the stage it ended
\* in and the cases it put into the prompt
Outcome(url, response, result, raised, stage, classifier_calls, retrieval_calls, prompt_cases) ==
    [url |-> url, response |-> response, result |-> result, raised |-> raised,
     stage |-> stage, classifier_calls |-> classifier_calls,
     retrieval_calls |-> retrieval_calls, prompt_cases |-> prompt_cases]

\* A mutant: the normal-rule verdict carries the rule's configured attack type
RuleVerdictKeepsType(url, rule_result) ==
    IF rule_result.is_normal
    THEN [url |-> url, predicted |-> P0, attack_type |-> rule_result.rules[1].attack_type,
          rule_matched |-> rule_result.rules, detection_method |-> "rule_normal"]
    ELSE [url |-> url, predicted |-> P1,
          attack_type |-> rule_result.rules[1].attack_type,
          rule_matched |-> rule_result.rules, detection_method |-> "rule_anomalous"]

\* HybridDetector.detect, step 1: the verdict of a matched rule
RuleVerdict(url, rule_result) ==
    IF rule_result.is_normal
    THEN [url |-> url, predicted |-> P0, attack_type |-> NONE,
          rule_matched |-> rule_result.rules, detection_method |-> "rule_normal"]
    ELSE [url |-> url, predicted |-> P1,
          attack_type |-> Get(rule_result.rules[1], "attack_type", UNKNOWN),
          rule_matched |-> rule_result.rules, detection_method |-> "rule_anomalous"]

\* HybridDetector.detect, step 2: the verdict of the similarity shortcut
SimilarityVerdict(url, rag_result) ==
    [url |-> url, predicted |-> rag_result.predicted,
     attack_type |-> rag_result.attack_type, rule_matched |-> <<>>,
     similar_cases |-> rag_result.similar_cases,
     detection_method |-> "rag_similarity", confidence |-> rag_result.confidence]

\* A mutant: every model verdict is labelled 'model'
ModelMethodAlwaysModel(similar_cases) == "model"

\* 'model_with_rag' if (self.use_rag and similar_cases) else 'model'
ModelMethod(similar_cases) ==
    IF use_rag /\ similar_cases # <<>> THEN "model_with_rag" ELSE "model"

\* The options detect subscripts for the Classifier call:
\* config['model']['fast_detection']['max_new_tokens'] and ['temperature']
GenerationOptions == {"max_new_tokens", "temperature"}

\* HybridDetector.detect, step 3: the prompt, the Classifier call, the parsing and
\* the result.  A generation option missing from the configuration raises
\* (KeyError) before the Classifier is called.  similar_cases is assigned only
\* in the RAG branch; reading it unassigned raises (UnboundLocalError) after the
\* Classifier has answered.
ModelInference(url, response, retrieval_calls) ==
    LET rag_on == use_rag /\ rag_engine
        rag_check == CheckRagSimilarity(url)
        similar_cases == Get(rag_check, "similar_cases", <<>>)
        prompt_cases == IF rag_on /\ similar_cases # <<>>
                        THEN Take(similar_cases, PromptCases) ELSE <<>>
        queries == IF rag_on THEN retrieval_calls + 1 ELSE retrieval_calls
        parsed == ParseFastDetectionResponse(response)
        missing == ~(GenerationOptions \subseteq DOMAIN options.fast_detection)
        calls == IF missing THEN 0 ELSE 1
    IN IF use_rag /\ ~rag_on
       THEN Outcome(url, response, <<>>, TRUE, "ModelInference", calls, queries, prompt_cases)
       ELSE LET base == [url |-> url, predicted |-> parsed.predicted,
                         attack_type |-> parsed.attack_type, rule_matched |-> <<>>,
                         detection_method |-> ModelMethod(similar_cases)]
                result == IF use_rag /\ similar_cases # <<>>
                          THEN base @@ [similar_cases |-> similar_cases]
                          ELSE base
            IN Outcome(url, response, IF missing THEN <<>> ELSE <<result>>, missing,
                       "ModelInference", calls, queries, prompt_cases)

\* A mutant: the rule verdict is returned only after the retrieval was consulted
DetectQueriesFirst(url, response) ==
    LET rule_result == RuleEngineCheck(url)
        rag_on == use_rag /\ rag_engine
        rag_result == CheckRagSimilarity(url)
    IN IF rule_result.matched
       THEN Outcome(url, response, <<RuleVerdict(url, rule_result)>>, FALSE, "RuleCheck",
                    0, IF rag_on THEN 1 ELSE 0, <<>>)
       ELSE IF rag_on /\ Get(rag_result, "matched", FALSE)
       THEN Outcome(url, response, <<SimilarityVerdict(url, rag_result)>>, FALSE,
                    "SimilarityCheck", 0, 1, <<>>)
       ELSE ModelInference(url, response, IF rag_on THEN 1 ELSE 0)

\* HybridDetector.detect
Detect(url, response) ==
    LET rule_result == RuleEngineCheck(url)
        rag_on == use_rag /\ rag_engine
        rag_result == CheckRagSimilarity(url)
    IN IF rule_result.matched
       THEN Outcome(url, response, <<RuleVerdict(url, rule_result)>>, FALSE, "RuleCheck",
                    0, 0, <<>>)
       ELSE IF rag_on /\ Get(rag_result, "matched", FALSE)
       THEN Outcome(url, response, <<SimilarityVerdict(url, rag_result)>>, FALSE,
                    "SimilarityCheck", 0, 1, <<>>)
       ELSE ModelInference(url, response, IF rag_on THEN 1 ELSE 0)

----------------------------------------------------------------------------
(* DeepAnalyzer; use_rag and rag_engine are here the DeepAnalyzer's own      *)
(* (model.deep_analysis.use_rag and rag.enabled)                             *)

\* The keyword arguments DeepAnalyzer.analyze passes to model.deep_analyze, and
\* the parameters QwenModel.deep_analyze(self, url, attack_type,
\* similar_cases=None) declares
AnalyzeArguments == {"url", "attack_type", "similar_cases", "knowledge_context"}
DeepAnalyzeParameters == {"url", "attack_type", "similar_cases"}

\* DeepAnalyzer.analyze: the retrieval, the call of model.deep_analyze (a
\* TypeError when it is passed a keyword it does not declare; else one
\* Classifier call, which answers with response) and the parsed report.
\* enhance_prompt_with_knowledge returns a non-empty text whenever it is called.
Analyze(url, stage1_result, response) ==
    LET attack_type == Get(stage1_result, "attack_type", UNKNOWN)
        rag_on == use_rag /\ rag_engine
        similar_cases == IF rag_on THEN RetrieveSimilarCases(url, DeepRagTopK) ELSE <<>>
        base == [url |-> url, attack_type |-> attack_type, stage1_info |-> stage1_result,
                 deep_analysis |-> ParseDeepAnalysisResponse(response),
                 raw_response |-> response]
        cases == IF similar_cases # <<>>
                 THEN [similar_cases |-> Take(similar_cases, KeptCases)] ELSE <<>>
        knowledge == IF rag_on THEN [used_knowledge |-> TRUE] ELSE <<>>
    IN IF ~(AnalyzeArguments \subseteq DeepAnalyzeParameters)
       THEN [raised |-> TRUE, classifier_calls |-> 0, result |-> <<>>]
       ELSE [raised |-> FALSE, classifier_calls |-> 1,
             result |-> <<base @@ cases @@ knowledge>>]

----------------------------------------------------------------------------
(* ResultStatistics *)

\* [r for r in results if test(r)] is SelectSeq(results, test) and
\* sum(1 for r in results if test(r)) its length, Count(results, test)
Count(results, Test(_)) ==
    Len(SelectSeq(results, Test))

IsTP(r) == r.true_label = P1 /\ r.predicted = P1
IsTN(r) == r.true_label = P0 /\ r.predicted = P0
IsFP(r) == r.true_label = P0 /\ r.predicted = P1
IsFN(r) == r.true_label = P1 /\ r.predicted = P0

\* r.get('detection_method') in ['rule_normal', 'rule_anomalous']
ByRule(r) == r.detection_method \in {"rule_normal", "rule_anomalous"}
\* r.get('detection_method') == 'model'
ByModel(r) == r.detection_method = "model"

\* A metric is a fraction num/den (a float in the code); 0.0 is 0/1
Zero == [num |-> 0, den |-> 1]
Frac(n, d) == [num |-> n, den |-> d]
IsZero(x) == x.num = 0
SameValue(x, y) == x.num * y.den = y.num * x.den

\* rule_stats[rule_id] after one more match of the rule by a result: the entry
\* is created at the rule's first match, then counted up
CountRule(rule_stats, result, rule) ==
    LET rule_id == Get(rule, "rule_id", "unknown")
        entry == IF rule_id \in DOMAIN rule_stats THEN rule_stats[rule_id]
                 ELSE [rule_name |-> Get(rule, "rule_name", "Unknown"),
                       attack_type |-> Get(rule, "attack_type", UNKNOWN),
                       total_matched |-> 0, correct |-> 0,
                       false_positive |-> 0, false_negative |-> 0]
        right == result.predicted = result.true_label
        counted ==
            [entry EXCEPT
                !.total_matched = @ + 1,
                !.correct = IF right THEN @ + 1 ELSE @,
                !.false_positive = IF ~right /\ IsFP(result) THEN @ + 1 ELSE @,
                !.false_negative = IF ~right /\ IsFN(result) THEN @ + 1 ELSE @]
    IN [k \in DOMAIN rule_stats \cup {rule_id} |->
            IF k = rule_id THEN counted ELSE rule_stats[k]]

\* for rule in matched_rules: ...
RECURSIVE CountRules(_, _, _)
CountRules(rule_stats, result, matched_rules) ==
    IF matched_rules = <<>> THEN rule_stats
    ELSE CountRules(CountRule(rule_stats, result, Head(matched_rules)), result,
                    Tail(matched_rules))

\* for result in self.all_results: ... (rule-decided results only)
RECURSIVE RuleStatsLoop(_, _)
RuleStatsLoop(rule_stats, results) ==
    IF results = <<>> THEN rule_stats
    ELSE IF ~ByRule(Head(results)) \/ Get(Head(results), "rule_matched", <<>>) = <<>>
    THEN RuleStatsLoop(rule_stats, Tail(results))
    ELSE RuleStatsLoop(CountRules(rule_stats, Head(results), Head(results).rule_matched),
                       Tail(results))

\* ResultStatistics._calculate_rule_statistics (the timings aside): a dict keyed
\* by rule_id, with the accuracy correct / total_matched of each entry
CalculateRuleStatistics(results) ==
    LET rule_stats == RuleStatsLoop(<<>>, results) IN
    [k \in DOMAIN rule_stats |->
        rule_stats[k] @@
            [accuracy |-> IF rule_stats[k].total_matched > 0
                          THEN Frac(rule_stats[k].correct, rule_stats[k].total_matched)
                          ELSE Zero]]

\* ResultStatistics.__init__ (the timing sums aside)
ResultStatistics(results) ==
    LET true_normal == SelectSeq(results, LAMBDA r : r.true_label = P0)
        true_attack == SelectSeq(results, LAMBDA r : r.true_label = P1)
        fps == SelectSeq(results, IsFP)
        fns == SelectSeq(results, IsFN)
    IN [all_results |-> results,
        normal_results |-> SelectSeq(results, LAMBDA r : r.predicted = P0),
        anomalous_results |-> SelectSeq(results, LAMBDA r : r.predicted = P1),
        true_normal_results |-> true_normal,
        true_attack_results |-> true_attack,
        tp |-> Count(results, IsTP),
        tn |-> Count(results, IsTN),
        fp |-> Count(results, IsFP),
        fn |-> Count(results, IsFN),
        rule_normal_count |-> Count(results, LAMBDA r : r.detection_method = "rule_normal"),
        rule_anomalous_count |->
            Count(results, LAMBDA r : r.detection_method = "rule_anomalous"),
        model_count |-> Count(results, ByModel),
        rule_results |-> SelectSeq(results, ByRule),
        model_results |-> SelectSeq(results, ByModel),
        normal_by_rule |-> SelectSeq(true_normal, ByRule),
        normal_by_model |-> SelectSeq(true_normal, ByModel),
        attack_by_rule |-> SelectSeq(true_attack, ByRule),
        attack_by_model |-> SelectSeq(true_attack, ByModel),
        fp_results |-> fps,
        fn_results |-> fns,
        rule_statistics |-> CalculateRuleStatistics(results),
        fp_by_rule |-> SelectSeq(fps, ByRule),
        fp_by_model |-> SelectSeq(fps, ByModel),
        fn_by_rule |-> SelectSeq(fns, ByRule),
        fn_by_model |-> SelectSeq(fns, ByModel),
        rag_similarity_count |->
            Count(results, LAMBDA r : r.detection_method = "rag_similarity"),
        model_with_rag_count |->
            Count(results, LAMBDA r : r.detection_method = "model_with_rag"),
        model_pure_count |-> Count(results, ByModel)]

\* part / whole * 100 if whole > 0, else the initial 0.0
Percent(part, whole) == IF whole > 0 THEN Frac(part * 100, whole) ELSE Zero

\* A mutant: the accuracy counts the true positives only
AccuracyTpOnly(st) == Percent(st.tp, Len(st.all_results))

\* metrics['accuracy'] = (self.tp + self.tn) / total * 100
Accuracy(st) == Percent(st.tp + st.tn, Len(st.all_results))

\* ResultStatistics.calculate_metrics
CalculateMetrics(st) ==
    LET recall == Percent(st.tp, st.tp + st.fn)
        precision == Percent(st.tp, st.tp + st.fp)
        pr_sum == precision.num * recall.den + recall.num * precision.den
    IN [total |-> Len(st.all_results),
        tp |-> st.tp, tn |-> st.tn, fp |-> st.fp, fn |-> st.fn,
        accuracy |-> Accuracy(st),
        recall |-> recall,
        precision |-> precision,
        f1_score |-> IF pr_sum > 0
                     THEN Frac(2 * precision.num * recall.num, pr_sum) ELSE Zero,
        fpr |-> Percent(st.fp, st.fp + st.tn),
        fnr |-> Percent(st.fn, st.fn + st.tp)]

\* round(x, 2) of a non-negative fraction: hundredths, halves to even
Round2(x) ==
    LET n == x.num * 100
        q == n \div x.den
        r == n % x.den
    IN Frac(IF 2 * r > x.den \/ (2 * r = x.den /\ q % 2 = 1) THEN q + 1 ELSE q, 100)

\* ResultStatistics._calculate_method_metrics
CalculateMethodMetrics(results) ==
    IF results = <<>>
    THEN [total |-> 0, accuracy |-> Zero, fpr |-> Zero, fnr |-> Zero]
    ELSE LET tp == Count(results, IsTP)
             tn == Count(results, IsTN)
             fp == Count(results, IsFP)
             fn == Count(results, IsFN)
             total == Len(results)
         IN [total |-> total, tp |-> tp, tn |-> tn, fp |-> fp, fn |-> fn,
             accuracy |-> Round2(Percent(tp + tn, total)),
             fpr |-> Round2(Percent(fp, fp + tn)),
             fnr |-> Round2(Percent(fn, fn + tp))]

\* ResultStatistics.print_dataset_method_statistics divides the per-dataset
\* counts by len(true_normal_results) and by len(true_attack_results)
\* without a guard: ZeroDivisionError when either dataset is empty
PrintDatasetMethodStatisticsRaises(st) ==
    Len(st.true_normal_results) = 0 \/ Len(st.true_attack_results) = 0

\* ResultStatistics.save_results: the files written (timing statistics and
\* rule statistics aside)
SaveResults(st) ==
    [stage1_all |-> st.all_results,
     metrics |-> CalculateMetrics(st) @@
        [dataset_statistics |->
            [normal_dataset |->
                [total |-> Len(st.true_normal_results),
                 by_rule |-> Len(st.normal_by_rule),
                 by_model |-> Len(st.normal_by_model),
                 correct_by_rule |-> Count(st.normal_by_rule, LAMBDA r : r.predicted = P0),
                 correct_by_model |-> Count(st.normal_by_model, LAMBDA r : r.predicted = P0)],
             attack_dataset |->
                [total |-> Len(st.true_attack_results),
                 by_rule |-> Len(st.attack_by_rule),
                 by_model |-> Len(st.attack_by_model),
                 correct_by_rule |-> Count(st.attack_by_rule, LAMBDA r : r.predicted = P1),
                 correct_by_model |-> Count(st.attack_by_model, LAMBDA r : r.predicted = P1)]],
         method_performance |->
            [rule_engine |-> CalculateMethodMetrics(st.rule_results),
             model_inference |-> CalculateMethodMetrics(st.model_results)]],
     false_positives_by_method |->
        [summary |-> [total |-> Len(st.fp_results), by_rule |-> Len(st.fp_by_rule),
                      by_model |-> Len(st.fp_by_model)],
         rule_based_fp |-> st.fp_by_rule,
         model_based_fp |-> st.fp_by_model],
     false_negatives_by_method |->
        [summary |-> [total |-> Len(st.fn_results), by_rule |-> Len(st.fn_by_rule),
                      by_model |-> Len(st.fn_by_model)],
         rule_based_fn |-> st.fn_by_rule,
         model_based_fn |-> st.fn_by_model],
     false_positives |->
        [total_count |-> Len(st.fp_results), by_rule |-> Len(st.fp_by_rule),
         by_model |-> Len(st.fp_by_model), cases |-> st.fp_results],
     false_negatives |->
        [total_count |-> Len(st.fn_results), by_rule |-> Len(st.fn_by_rule),
         by_model |-> Len(st.fn_by_model), cases |-> st.fn_results]]

\* ResultStatistics.generate_full_report: the warning for an empty result list;
\* else the printed reports in order (print_metrics prints calculate_metrics())
\* and, if none of them raised, save_results
GenerateFullReport(st) ==
    IF Len(st.all_results) = 0
    THEN [status |-> "empty_warning", stats |-> st]
    ELSE IF PrintDatasetMethodStatisticsRaises(st)
    THEN [status |-> "raised", stats |-> st, printed_metrics |-> CalculateMetrics(st)]
    ELSE [status |-> "saved", stats |-> st, printed_metrics |-> CalculateMetrics(st),
          files |-> SaveResults(st)]

----------------------------------------------------------------------------
(* The run: load_rule_engine, HybridDetector.__init__, process_file *)

NoOutcome == Outcome(0, <<>>, <<>>, FALSE, "none", 0, 0, <<>>)
NoReport == [status |-> "none"]
NoParse == [parser |-> "none"]
NoSearch == [kind |-> "none"]

\* No text parsed, no batch analysed, no persisted library and no query yet
NoParser ==
    /\ raw_response = NoText
    /\ parse_result = NoParse

NoDeep ==
    /\ deep_input = <<>>
    /\ deep_results = <<>>
    /\ deep_calls = 0

\* The options all present, no rule file read and no RuleEngine.detect yet
FullOptions ==
    [fast_detection |-> [max_new_tokens |-> 8, temperature |-> 0], rag |-> <<>>]
NoRuleFiles == [enabled |-> TRUE, anomalous |-> <<>>, normal |-> <<>>]
NoRuleVerdict == [url |-> 0]

NoSetup ==
    /\ options = FullOptions
    /\ rule_files = NoRuleFiles
    /\ rule_verdict = NoRuleVerdict

\* A value main binds to a name: a result dict (a list would have kind
\* "list"), or nothing yet
PyDict(d) == [kind |-> "dict", items |-> <<d>>]
Unbound == [kind |-> "unbound", items |-> <<>>]

\* No process_file call made and neither name of main bound
NoMain ==
    /\ file_results = <<>>
    /\ returned = <<>>
    /\ good_results = Unbound
    /\ bad_results = Unbound

NoFiles ==
    /\ store_files = [index |-> MissingFile, metadata |-> MissingFile]
    /\ search_result = NoSearch

\* The fast-detection RAG options a configuration may carry
RagConfigs == { <<>>, [similarity_threshold |-> 90], [top_k |-> 1] }

Init ==
    /\ enabled \in BOOLEAN
    /\ \E files \in (IF enabled THEN RuleFiles ELSE {<<<<>>, <<>>>>}) :
          /\ anomalous_rules = LoadRules(files[1])
          /\ normal_rules = LoadRules(files[2])
    /\ use_rag \in BOOLEAN
    /\ \E rag_enabled \in BOOLEAN : rag_engine = (use_rag /\ rag_enabled)
    /\ rag_config \in (IF rag_engine THEN RagConfigs ELSE {<<>>})
    /\ \E loaded \in BOOLEAN :
          /\ index = IF rag_engine /\ loaded THEN PersistedIndex ELSE NoIndex
          /\ metadata = IF rag_engine /\ loaded THEN PersistedMetadata ELSE <<>>
          /\ store_files = IF rag_engine /\ loaded THEN PersistedFiles
                           ELSE [index |-> MissingFile, metadata |-> MissingFile]
    /\ search_result = NoSearch
    /\ file = "normal"
    /\ all_results = <<>>
    /\ last = NoOutcome
    /\ report = NoReport
    /\ pc = "stage1"
    /\ NoParser /\ NoDeep /\ NoSetup /\ NoMain

\* Variant: a URL seen before in the run gets the result recorded for it then
ProcessUrlCached(url, response) ==
    /\ pc = "stage1"
    /\ Len(all_results) < MaxUrls
    /\ LET seen == {i \in 1..Len(all_results) : all_results[i].url = url}
           out == IF seen = {} THEN Detect(url, response)
                  ELSE Outcome(url, response, <<all_results[CHOOSE i \in seen : TRUE]>>,
                               FALSE, "none", 0, 0, <<>>)
       IN /\ last' = out
          /\ IF out.raised
             THEN /\ pc' = "crashed"
                  /\ all_results' = all_results
             ELSE /\ pc' = pc
                  /\ all_results' = Append(all_results, out.result[1])
    /\ UNCHANGED <<config_vars, file, report, parser_vars, deep_vars, store_vars, setup_vars, main_vars>>

\* process_file, one line of the file: detect, then the true label is written
\* into the result and the result appended.  An exception of detect is not
\* caught: it ends the run.
ProcessUrl(url, response) ==
    /\ pc = "stage1"
    /\ Len(all_results) < MaxUrls
    /\ LET out == Detect(url, response) IN
         /\ last' = out
         /\ IF out.raised
            THEN /\ pc' = "crashed"
                 /\ all_results' = all_results
            ELSE /\ pc' = pc
                 /\ all_results' = Append(all_results,
                        out.result[1] @@ [true_label |-> IF file = "attack" THEN P1 ELSE P0])
    /\ UNCHANGED <<config_vars, file, report, parser_vars, deep_vars, store_vars, setup_vars, main_vars>>

\* main: the normal file is finished, the attack file is next
NextFile ==
    /\ pc = "stage1"
    /\ file = "normal"
    /\ file' = "attack"
    /\ UNCHANGED <<config_vars, all_results, last, report, pc, parser_vars, deep_vars, store_vars, setup_vars, main_vars>>

\* analyze_results(all_stage1_results, ...): ResultStatistics(...) and
\* generate_full_report, after both files were processed
AnalyzeResults ==
    /\ pc = "stage1"
    /\ file = "attack"
    /\ report' = GenerateFullReport(ResultStatistics(all_results))
    /\ pc' = "done"
    /\ UNCHANGED <<config_vars, file, all_results, last, parser_vars, deep_vars, store_vars, setup_vars, main_vars>>

Next ==
    \/ \E url \in Urls, response \in Responses : ProcessUrl(url, response)
    \/ NextFile
    \/ AnalyzeResults

Spec == Init /\ [][Next]_vars

----------------------------------------------------------------------------
(* The ResponseAnalyzer on its own: any short text over the characters the    *)
(* parser tells apart ("x" stands for any other character)                   *)

ResponseChars == {"0", "1", "2", "|", "x", " "}
ResponseTexts == UNION {[1..n -> ResponseChars] : n \in 0..MaxResponseLen}

\* No detector, no vector library and no run
NoDetector ==
    /\ enabled = FALSE
    /\ anomalous_rules = <<>>
    /\ normal_rules = <<>>
    /\ use_rag = FALSE
    /\ rag_engine = FALSE
    /\ rag_config = <<>>

NoStore ==
    /\ index = NoIndex
    /\ metadata = <<>>

NoRun ==
    /\ file = "normal"
    /\ all_results = <<>>
    /\ last = NoOutcome
    /\ report = NoReport

InitParser ==
    /\ NoDetector /\ NoStore /\ NoRun /\ NoDeep /\ NoFiles /\ NoSetup /\ NoMain
    /\ pc = "parse"
    /\ raw_response \in ResponseTexts
    /\ parse_result = NoParse

\* parser.parse_fast_detection_response(response)
ParseFast ==
    /\ pc = "parse"
    /\ parse_result' = [parser |-> "fast"] @@ ParseFastDetectionResponse(raw_response)
    /\ pc' = "parsed"
    /\ UNCHANGED <<config_vars, run_vars, raw_response, deep_vars, store_vars, setup_vars, main_vars>>

\* parser.parse_lora_response(response)
ParseLora ==
    /\ pc = "parse"
    /\ parse_result' = [parser |-> "lora"] @@ ParseLoraResponse(raw_response)
    /\ pc' = "parsed"
    /\ UNCHANGED <<config_vars, run_vars, raw_response, deep_vars, store_vars, setup_vars, main_vars>>

NextParser ==
    \/ ParseFast
    \/ ParseLora

SpecParser == InitParser /\ [][NextParser]_vars

----------------------------------------------------------------------------
(* parse_deep_analysis_response on its own: responses made of an optional    *)
(* preamble and headed sections ("other" is a heading the parser does not    *)
(* know; "x" stands for a word of body text)                                 *)

SectionHeadings == {"attack_type", "summary", "other"}

\* The body of a section: none, a blank line, one line, or a last line
\* without its newline
SectionBodies == { <<>>, <<"\n">>, <<"x", "\n">>, <<"x", "x">> }

SectionBlocks ==
    { <<"##">> \o gap \o <<heading, "\n">> \o body :
        gap \in {<<>>, <<" ">>}, heading \in SectionHeadings, body \in SectionBodies }

RECURSIVE Concat(_)
Concat(blocks) == IF blocks = <<>> THEN <<>> ELSE Head(blocks) \o Concat(Tail(blocks))

DeepTexts ==
    { preamble \o Concat(blocks) :
        preamble \in {<<>>, <<"x", "\n">>},
        blocks \in UNION {[1..n -> SectionBlocks] : n \in 0..MaxSections} }

InitReport ==
    /\ NoDetector /\ NoStore /\ NoRun /\ NoDeep /\ NoFiles /\ NoSetup /\ NoMain
    /\ pc = "parse"
    /\ raw_response \in DeepTexts
    /\ parse_result = NoParse

\* parser.parse_deep_analysis_response(response)
ParseDeep ==
    /\ pc = "parse"
    /\ parse_result' = [parser |-> "deep", report |-> ParseDeepAnalysisResponse(raw_response)]
    /\ pc' = "parsed"
    /\ UNCHANGED <<config_vars, run_vars, raw_response, deep_vars, store_vars, setup_vars, main_vars>>

NextReport == ParseDeep

SpecReport == InitReport /\ [][NextReport]_vars

----------------------------------------------------------------------------
(* DeepAnalyzer.batch_analyze over the anomalous results of stage 1 *)

\* Stage-1 results with predicted "1"
AnomalousResults ==
    { [url |-> url, predicted |-> P1, attack_type |-> attack_type,
       detection_method |-> "model"] :
        url \in {1, 4}, attack_type \in {UNKNOWN, <<"sql_injection">>} }

\* What the Classifier may answer in deep mode
DeepResponses == { NoText, <<"##", "attack_type", "\n", "x">> }

InitDeep ==
    /\ enabled = FALSE
    /\ anomalous_rules = <<>>
    /\ normal_rules = <<>>
    /\ use_rag \in BOOLEAN
    /\ \E rag_enabled \in BOOLEAN : rag_engine = (use_rag /\ rag_enabled)
    /\ rag_config = <<>>
    /\ \E loaded \in BOOLEAN :
          /\ index = IF rag_engine /\ loaded THEN PersistedIndex ELSE NoIndex
          /\ metadata = IF rag_engine /\ loaded THEN PersistedMetadata ELSE <<>>
          /\ store_files = IF rag_engine /\ loaded THEN PersistedFiles
                           ELSE [index |-> MissingFile, metadata |-> MissingFile]
    /\ search_result = NoSearch
    /\ NoRun /\ NoParser /\ NoSetup /\ NoMain
    /\ pc = "batch"
    /\ deep_input \in UNION {[1..n -> AnomalousResults] : n \in 0..MaxBatch}
    /\ deep_results = <<>>
    /\ deep_calls = 0

\* batch_analyze, one turn of its loop: analyze the next result and append the
\* analysis.  An exception of analyze is not caught: it ends batch_analyze.
BatchAnalyzeStep(response) ==
    /\ pc = "batch"
    /\ Len(deep_results) < Len(deep_input)
    /\ LET result == deep_input[Len(deep_results) + 1]
           out == Analyze(result.url, result, response)
       IN /\ deep_calls' = deep_calls + out.classifier_calls
          /\ IF out.raised
             THEN /\ pc' = "crashed"
                  /\ deep_results' = deep_results
             ELSE /\ pc' = pc
                  /\ deep_results' = Append(deep_results, out.result[1])
    /\ UNCHANGED <<config_vars, run_vars, parser_vars, store_vars, deep_input, setup_vars, main_vars>>

\* batch_analyze: the loop is over, deep_results is returned
BatchAnalyzeReturn ==
    /\ pc = "batch"
    /\ Len(deep_results) = Len(deep_input)
    /\ pc' = "returned"
    /\ UNCHANGED <<config_vars, run_vars, parser_vars, store_vars, deep_vars, setup_vars, main_vars>>

NextDeep ==
    \/ \E response \in DeepResponses : BatchAnalyzeStep(response)
    \/ BatchAnalyzeReturn

SpecDeep == InitDeep /\ [][NextDeep]_vars

----------------------------------------------------------------------------
(* The vector library on its own: a RAGEngine is built over persisted files   *)
(* in any condition, texts are added to the store and queries are made.       *)

\* The index files and metadata files a RAGEngine may find: missing,
\* unreadable, the persisted library, and an index file with fewer or more
\* vectors than the metadata file has records
IndexFiles ==
    { MissingFile, CorruptFile, StoredFile(PersistedVectors),
      StoredFile(SubSeq(PersistedVectors, 1, 2)),
      StoredFile(PersistedVectors \o <<Len(LibraryTexts)>>) }
MetadataFiles == { MissingFile, CorruptFile, StoredFile(PersistedMetadata) }

\* The texts one folder holds (os.listdir gives them in any order)
Folders(texts) == UNION {[1..n -> texts] : n \in 0..MaxFolder}

\* The top_k values of the callers: the best case only, and the default
TopKs == {1, DefaultTopK}

InitStore ==
    /\ NoDetector /\ NoStore /\ NoRun /\ NoParser /\ NoDeep /\ NoSetup /\ NoMain
    /\ store_files \in [index : IndexFiles, metadata : MetadataFiles]
    /\ search_result = NoSearch
    /\ pc = "init"

\* RAGEngine.__init__ with rag.enabled: _init_vector_store
InitVectorStore ==
    /\ pc = "init"
    /\ LET store == LoadedStore(store_files) IN
         /\ index' = store.index
         /\ metadata' = store.metadata
    /\ pc' = "library"
    /\ UNCHANGED <<enabled, normal_rules, anomalous_rules, use_rag, rag_engine,
                   rag_config, run_vars, parser_vars, deep_vars, store_vars, setup_vars, main_vars>>

\* Variant: the vectors are added to the index and the metadata is left alone
AddTextsIndexOnly(folder) ==
    /\ pc = "library"
    /\ folder # <<>>
    /\ Len(index.vectors) + Len(folder) <= MaxVectors
    /\ index' = [present |-> TRUE, vectors |-> index.vectors \o folder]
    /\ search_result' = NoSearch
    /\ UNCHANGED <<enabled, normal_rules, anomalous_rules, use_rag, rag_engine,
                   rag_config, metadata, run_vars, parser_vars, deep_vars, store_files,
                   pc, setup_vars, main_vars>>

\* VectorStore.add_url_history_folder / add_knowledge_documents: nothing is
\* done for an empty folder; else the index is created if there is none, the
\* vectors are added to it and the records to the metadata.  search_result is
\* the outcome of the last query on the present library: none after an addition.
AddTexts(folder) ==
    /\ pc = "library"
    /\ Len(metadata) + Len(folder) <= MaxVectors
    /\ Len(index.vectors) + Len(folder) <= MaxVectors
    /\ IF folder = <<>>
       THEN UNCHANGED <<index, metadata>>
       ELSE /\ index' = [present |-> TRUE, vectors |-> index.vectors \o folder]
            /\ metadata' = metadata \o [k \in 1..Len(folder) |-> LibraryTexts[folder[k]]]
    /\ search_result' = NoSearch
    /\ UNCHANGED <<enabled, normal_rules, anomalous_rules, use_rag, rag_engine,
                   rag_config, run_vars, parser_vars, deep_vars, store_files, pc, setup_vars, main_vars>>

\* VectorStore.build_index(texts, labels): a new index of the texts' vectors,
\* and a new metadata list with the url and the label of each (no type)
BuildIndex(texts) ==
    /\ pc = "library"
    /\ texts # <<>>
    /\ index' = [present |-> TRUE, vectors |-> texts]
    /\ metadata' = [k \in 1..Len(texts) |->
                      [url |-> LibraryTexts[texts[k]].url,
                       label |-> LibraryTexts[texts[k]].label]]
    /\ search_result' = NoSearch
    /\ UNCHANGED <<enabled, normal_rules, anomalous_rules, use_rag, rag_engine,
                   rag_config, run_vars, parser_vars, deep_vars, store_files, pc,
                   setup_vars, main_vars>>

\* VectorStore.save: ValueError without an index; else both files are written
Save ==
    /\ pc = "library"
    /\ index.present
    /\ store_files' = [index |-> StoredFile(index.vectors),
                       metadata |-> StoredFile(metadata)]
    /\ UNCHANGED <<config_vars, run_vars, parser_vars, deep_vars, search_result, pc,
                   setup_vars, main_vars>>

\* VectorStore.load on the store as it is: the index is read and assigned,
\* then the metadata; a file that cannot be read raises and leaves the rest
VectorStoreLoad ==
    /\ pc = "library"
    /\ store_files.index.state = "ok"
    /\ index' = [present |-> TRUE, vectors |-> store_files.index.content]
    /\ metadata' = IF store_files.metadata.state = "ok"
                   THEN store_files.metadata.content ELSE metadata
    /\ search_result' = NoSearch
    /\ UNCHANGED <<enabled, normal_rules, anomalous_rules, use_rag, rag_engine,
                   rag_config, run_vars, parser_vars, deep_vars, store_files, pc,
                   setup_vars, main_vars>>

AddUrlHistoryFolder == \E folder \in Folders(CaseTexts) : AddTexts(folder)

AddKnowledgeDocuments == \E folder \in Folders(KnowledgeTexts) : AddTexts(folder)

\* RAGEngine.retrieve_similar_cases(url, top_k): no query without an index,
\* else search_in_url_cases_only and one case per result; an exception of the
\* search is not caught
RetrieveCases(url, top_k) ==
    /\ pc = "library"
    /\ \E out \in (IF ~index.present THEN {[raised |-> FALSE, results |-> <<>>]}
                    ELSE SearchOutcomes("url_case", url, top_k)) :
          search_result' =
             [kind |-> "url_case", url |-> url, top_k |-> top_k,
              raised |-> out.raised, results |-> out.results,
              items |-> [k \in 1..Len(out.results) |->
                 [url |-> Get(metadata[out.results[k].idx], "url", NoText),
                  label |-> Get(metadata[out.results[k].idx], "label", NoText),
                  similarity_score |-> out.results[k].score]]]
    /\ UNCHANGED <<config_vars, run_vars, parser_vars, deep_vars, store_files, pc, setup_vars, main_vars>>

\* RAGEngine.retrieve_knowledge(query, top_k)
RetrieveKnowledge(url, top_k) ==
    /\ pc = "library"
    /\ \E out \in (IF ~index.present THEN {[raised |-> FALSE, results |-> <<>>]}
                    ELSE SearchInKnowledgeOnly(url, top_k)) :
          search_result' =
             [kind |-> "knowledge", url |-> url, top_k |-> top_k,
              raised |-> out.raised, results |-> out.results,
              items |-> [k \in 1..Len(out.results) |->
                 [attack_id |-> Get(metadata[out.results[k].idx], "attack_id", NoText),
                  source |-> Get(metadata[out.results[k].idx], "source", NoText),
                  similarity_score |-> out.results[k].score]]]
    /\ UNCHANGED <<config_vars, run_vars, parser_vars, deep_vars, store_files, pc, setup_vars, main_vars>>

NextStore ==
    \/ InitVectorStore
    \/ AddUrlHistoryFolder
    \/ AddKnowledgeDocuments
    \/ \E url \in Urls, top_k \in TopKs : RetrieveCases(url, top_k)
    \/ \E url \in Urls, top_k \in TopKs : RetrieveKnowledge(url, top_k)

SpecStore == InitStore /\ [][NextStore]_vars

----------------------------------------------------------------------------
(* A VectorStore from its construction on: build_index, the two additions,    *)
(* save and load in any order, and queries.                                   *)

\* The labelled URLs and the knowledge chunks at hand, and the queries made
LibraryCorpus == {1, 4}
LibraryChunks == {2}
LibraryQueries == {4, 7}

InitLibrary ==
    /\ NoDetector /\ NoStore /\ NoRun /\ NoParser /\ NoDeep /\ NoFiles /\ NoSetup /\ NoMain
    /\ pc = "library"

NextLibrary ==
    \/ \E texts \in Folders(LibraryCorpus) : BuildIndex(texts)
    \/ \E folder \in Folders(LibraryCorpus) : AddTexts(folder)
    \/ \E folder \in Folders(LibraryChunks) : AddTexts(folder)
    \/ Save
    \/ VectorStoreLoad
    \/ \E url \in LibraryQueries, top_k \in TopKs : RetrieveCases(url, top_k)
    \/ \E url \in LibraryQueries, top_k \in TopKs : RetrieveKnowledge(url, top_k)

SpecLibrary == InitLibrary /\ [][NextLibrary]_vars

----------------------------------------------------------------------------
(* The RuleEngine on its own: load_rule_engine over rule files that may hold  *)
(* a pattern that does not compile, then detect, disable and enable.          *)

\* The rules a rule file may hold, in any order and number up to MaxRules
BadRule == [id |-> "B1", name |-> "bad", pattern |-> BadPattern, attack_type |-> UNKNOWN]
RuleFileContents(rules_config) ==
    LET pool == {rules_config[i] : i \in 1..Len(rules_config)} \cup {BadRule}
    IN UNION {[1..n -> pool] : n \in 0..MaxRules}

InitRules ==
    /\ enabled = TRUE
    /\ anomalous_rules = <<>>
    /\ normal_rules = <<>>
    /\ use_rag = FALSE
    /\ rag_engine = FALSE
    /\ rag_config = <<>>
    /\ NoStore /\ NoRun /\ NoParser /\ NoDeep /\ NoFiles
    /\ options = FullOptions
    /\ rule_files \in [enabled : BOOLEAN,
                        anomalous : RuleFileContents(AnomalousRulesConfig),
                        normal : RuleFileContents(NormalRulesConfig)]
    /\ rule_verdict = NoRuleVerdict
    /\ NoMain
    /\ pc = "load"

\* load_rule_engine(config): a disabled engine without rules, or the rules of
\* both files
LoadRuleEngine ==
    /\ pc = "load"
    /\ IF ~rule_files.enabled
       THEN /\ enabled' = FALSE
            /\ UNCHANGED <<normal_rules, anomalous_rules>>
       ELSE /\ normal_rules' = LoadRules(rule_files.normal)
            /\ anomalous_rules' = LoadRules(rule_files.anomalous)
            /\ UNCHANGED enabled
    /\ pc' = "rules"
    /\ UNCHANGED <<use_rag, rag_engine, rag_config, index, metadata, run_vars,
                   parser_vars, deep_vars, store_vars, setup_vars, main_vars>>

\* RuleEngine.detect(url)
RuleDetect(url) ==
    /\ pc = "rules"
    /\ rule_verdict' = [url |-> url] @@ RuleEngineDetect(url)
    /\ UNCHANGED <<config_vars, run_vars, parser_vars, deep_vars, store_vars,
                   options, rule_files, pc, main_vars>>

\* RuleEngine.disable / RuleEngine.enable
Disable ==
    /\ pc = "rules"
    /\ enabled
    /\ enabled' = FALSE
    /\ rule_verdict' = NoRuleVerdict
    /\ UNCHANGED <<normal_rules, anomalous_rules, use_rag, rag_engine, rag_config,
                   index, metadata, run_vars, parser_vars, deep_vars, store_vars,
                   options, rule_files, pc, main_vars>>

Enable ==
    /\ pc = "rules"
    /\ ~enabled
    /\ enabled' = TRUE
    /\ rule_verdict' = NoRuleVerdict
    /\ UNCHANGED <<normal_rules, anomalous_rules, use_rag, rag_engine, rag_config,
                   index, metadata, run_vars, parser_vars, deep_vars, store_vars,
                   options, rule_files, pc, main_vars>>

NextRules ==
    \/ LoadRuleEngine
    \/ \E url \in Urls : RuleDetect(url)
    \/ Disable
    \/ Enable

SpecRules == InitRules /\ [][NextRules]_vars

----------------------------------------------------------------------------
(* A run under a configuration in which any of the options may be missing:    *)
(* load_rule_engine and HybridDetector.__init__, then detect for each URL.    *)

\* model.fast_detection with any of its generation options, and the rag
\* section with any of its own similarity_threshold and top_k
FastDetectionOptions ==
    { <<>>, [max_new_tokens |-> 8], [temperature |-> 0],
      [max_new_tokens |-> 8, temperature |-> 0] }
RagOptions ==
    { <<>>, [similarity_threshold |-> 90], [top_k |-> 1],
      [similarity_threshold |-> 90, top_k |-> 1] }

InitConfig ==
    /\ enabled = TRUE
    /\ anomalous_rules = LoadRules(AnomalousRulesConfig)
    /\ normal_rules = LoadRules(NormalRulesConfig)
    /\ use_rag \in BOOLEAN
    /\ \E rag_enabled \in BOOLEAN : rag_engine = (use_rag /\ rag_enabled)
    /\ rag_config \in (IF rag_engine THEN RagConfigs ELSE {<<>>})
    /\ store_files = IF rag_engine THEN PersistedFiles
                     ELSE [index |-> MissingFile, metadata |-> MissingFile]
    /\ index = IF rag_engine THEN LoadedStore(store_files).index ELSE NoIndex
    /\ metadata = IF rag_engine THEN LoadedStore(store_files).metadata ELSE <<>>
    /\ search_result = NoSearch
    /\ NoRun /\ NoParser /\ NoDeep
    /\ options \in [fast_detection : FastDetectionOptions, rag : RagOptions]
    /\ rule_files = NoRuleFiles
    /\ rule_verdict = NoRuleVerdict
    /\ NoMain
    /\ pc = "stage1"

NextConfig == \E url \in Urls, response \in Responses : ProcessUrl(url, response)

SpecConfig == InitConfig /\ [][NextConfig]_vars

----------------------------------------------------------------------------
(* A run whose resources may be missing or unreadable: load_rule_engine and   *)
(* HybridDetector.__init__ over such files, then detect for each URL.         *)

\* load_rule_engine loads no rule from a rule file that is missing or cannot
\* be read, and leaves the engine enabled
RuleFilesFound ==
    { <<a, n>> : a \in {AnomalousRulesConfig, <<>>}, n \in {NormalRulesConfig, <<>>} }

\* The vector library files: each missing, unreadable or as persisted
LibraryFilesFound ==
    [index : {MissingFile, CorruptFile, StoredFile(PersistedVectors)},
     metadata : {MissingFile, CorruptFile, StoredFile(PersistedMetadata)}]

InitResources ==
    /\ enabled = TRUE
    /\ \E files \in RuleFilesFound :
          /\ anomalous_rules = LoadRules(files[1])
          /\ normal_rules = LoadRules(files[2])
    /\ use_rag \in BOOLEAN
    /\ \E rag_enabled \in BOOLEAN : rag_engine = (use_rag /\ rag_enabled)
    /\ rag_config = <<>>
    /\ store_files \in (IF rag_engine THEN LibraryFilesFound
                         ELSE {[index |-> MissingFile, metadata |-> MissingFile]})
    /\ index = LoadedStore(store_files).index
    /\ metadata = LoadedStore(store_files).metadata
    /\ search_result = NoSearch
    /\ NoRun /\ NoParser /\ NoDeep /\ NoSetup /\ NoMain
    /\ pc = "stage1"

NextResources == \E url \in Urls, response \in Responses : ProcessUrl(url, response)

SpecResources == InitResources /\ [][NextResources]_vars

----------------------------------------------------------------------------
(* main, the two-stage flow statement by statement: process_file over the    *)
(* normal file, its return value unpacked into three names, the same for the *)
(* attack file, then good_results + bad_results.  No run gets past that      *)
(* statement, so the statements after it have no step here.                  *)

\* The lines of the data files and the Classifier's answers in these runs
MainUrls == {1, 3, 4}
MainResponses == { <<"0">>, <<"1">> }

\* good_results, good_elapsed, good_filename = ...: the names on the left
UnpackedNames == 3

InitMain ==
    /\ enabled = TRUE
    /\ anomalous_rules = LoadRules(AnomalousRulesConfig)
    /\ normal_rules = LoadRules(NormalRulesConfig)
    /\ use_rag \in BOOLEAN
    /\ \E rag_enabled \in BOOLEAN : rag_engine = (use_rag /\ rag_enabled)
    /\ rag_config = <<>>
    /\ store_files = IF rag_engine THEN PersistedFiles
                     ELSE [index |-> MissingFile, metadata |-> MissingFile]
    /\ index = IF rag_engine THEN LoadedStore(store_files).index ELSE NoIndex
    /\ metadata = IF rag_engine THEN LoadedStore(store_files).metadata ELSE <<>>
    /\ search_result = NoSearch
    /\ NoRun /\ NoParser /\ NoDeep /\ NoSetup /\ NoMain
    /\ pc = "process_file"

\* process_file, one line of the file: detect, the true label written into
\* the result, the result appended to results.  A file that does not exist
\* is a file without lines: [] is returned for both.
ProcessLine(url, response) ==
    /\ pc = "process_file"
    /\ Len(file_results) < MaxLines
    /\ LET out == Detect(url, response) IN
         /\ last' = out
         /\ IF out.raised
            THEN /\ pc' = "crashed"
                 /\ file_results' = file_results
            ELSE /\ pc' = pc
                 /\ file_results' = Append(file_results,
                        out.result[1] @@ [true_label |-> IF file = "attack" THEN P1 ELSE P0])
    /\ UNCHANGED <<config_vars, file, all_results, report, parser_vars, deep_vars,
                   store_vars, setup_vars, returned, good_results, bad_results>>

\* process_file returns results for the normal file and main unpacks the list
\* into good_results, good_elapsed, good_filename: a list of another length
\* than three raises ValueError, a list of three binds good_results to its
\* first element, a result dict
ReturnNormal ==
    /\ pc = "process_file"
    /\ file = "normal"
    /\ returned' = Append(returned, file_results)
    /\ IF Len(file_results) = UnpackedNames
       THEN /\ good_results' = PyDict(file_results[1])
            /\ file' = "attack"
            /\ file_results' = <<>>
            /\ pc' = pc
       ELSE /\ pc' = "crashed"
            /\ UNCHANGED <<good_results, file, file_results>>
    /\ UNCHANGED <<config_vars, all_results, last, report, parser_vars, deep_vars,
                   store_vars, setup_vars, bad_results>>

\* The same for the attack file: bad_results, bad_elapsed, bad_filename
ReturnAttack ==
    /\ pc = "process_file"
    /\ file = "attack"
    /\ returned' = Append(returned, file_results)
    /\ IF Len(file_results) = UnpackedNames
       THEN /\ bad_results' = PyDict(file_results[1])
            /\ pc' = "concatenate"
       ELSE /\ pc' = "crashed"
            /\ UNCHANGED bad_results
    /\ UNCHANGED <<config_vars, file, all_results, last, report, parser_vars, deep_vars,
                   store_vars, setup_vars, file_results, good_results>>

\* all_stage1_results = good_results + bad_results: + joins two lists and
\* raises TypeError for two dicts
Concatenate ==
    /\ pc = "concatenate"
    /\ IF good_results.kind = "list" /\ bad_results.kind = "list"
       THEN /\ all_results' = good_results.items \o bad_results.items
            /\ pc' = "stage1_done"
       ELSE /\ pc' = "crashed"
            /\ UNCHANGED all_results
    /\ UNCHANGED <<config_vars, file, last, report, parser_vars, deep_vars,
                   store_vars, setup_vars, main_vars>>

NextMain ==
    \/ \E url \in MainUrls, response \in MainResponses : ProcessLine(url, response)
    \/ ReturnNormal
    \/ ReturnAttack
    \/ Concatenate

\* main is one sequential program: it takes its next step as long as it has one
SpecMain == InitMain /\ [][NextMain]_vars /\ WF_vars(NextMain)

----------------------------------------------------------------------------
(* What the properties speak about, computed from the configuration alone *)

MinOf(S) == CHOOSE x \in S : \A y \in S : x <= y

\* The rules of a list whose pattern matches the URL
MatchingRules(rules, url) == {i \in 1..Len(rules) : url \in rules[i].pattern}

\* The last detect call returned a result
Returned == last.stage # "none" /\ ~last.raised /\ last.result # <<>>

\* RAG is enabled for the first stage by both flags and the index is loaded
RagAvailable == use_rag /\ rag_engine /\ index.present

\* The case records of the index and the best similarity among them
CasePositions == {i \in 1..Len(metadata) : metadata[i].type = "url_case"}
BestSimilarity(url) ==
    CHOOSE v \in {Similarity(url, i) : i \in CasePositions} :
        \A i \in CasePositions : Similarity(url, i) <= v
BestCases(url) == {i \in CasePositions : Similarity(url, i) = BestSimilarity(url)}
Threshold == Get(rag_config, "similarity_threshold", DefaultThreshold)

\* The similarity shortcut applies: retrieval returns a case at or above the threshold
ShortcutApplies(url) ==
    RagAvailable /\ CasePositions # {} /\ BestSimilarity(url) >= Threshold

NoRuleMatches(url) ==
    ~enabled \/ (MatchingRules(anomalous_rules, url) = {} /\ MatchingRules(normal_rules, url) = {})

DetectionMethods == {"rule_normal", "rule_anomalous", "rag_similarity", "model", "model_with_rag"}

----------------------------------------------------------------------------
(* Properties *)

\* C1: with the rule engine enabled, a URL matched by an anomalous rule gets
\* predicted "1", detection_method rule_anomalous and the attack_type of the
\* (first) matching anomalous rule, whatever the RAG configuration and even
\* when a normal rule matches too.
C1_RulePriority ==
    (last.stage # "none" /\ enabled /\ MatchingRules(anomalous_rules, last.url) # {}) =>
        /\ Returned
        /\ last.result[1].predicted = P1
        /\ last.result[1].detection_method = "rule_anomalous"
        /\ last.result[1].attack_type =
              anomalous_rules[MinOf(MatchingRules(anomalous_rules, last.url))].attack_type

\* C1 witness: a URL matched by an anomalous and by a normal rule was decided
\* while retrieval was available
C1_Witness ==
    /\ Returned /\ enabled /\ RagAvailable
    /\ MatchingRules(anomalous_rules, last.url) # {}
    /\ MatchingRules(normal_rules, last.url) # {}
    /\ last.result[1].detection_method = "rule_anomalous"

\* C2: a URL matched by a normal rule and by no anomalous rule gets predicted
\* "0", detection_method rule_normal and attack_type "none", whatever
\* attack_type the normal rule was configured with.
C2_RuleFallback ==
    (/\ last.stage # "none"
     /\ MatchingRules(normal_rules, last.url) # {}
     /\ MatchingRules(anomalous_rules, last.url) = {}) =>
        /\ Returned
        /\ last.result[1].predicted = P0
        /\ last.result[1].detection_method = "rule_normal"
        /\ last.result[1].attack_type = NONE

\* C2 witness: the matching normal rule is configured with an attack_type
\* other than "none"
C2_Witness ==
    /\ Returned
    /\ MatchingRules(anomalous_rules, last.url) = {}
    /\ MatchingRules(normal_rules, last.url) # {}
    /\ normal_rules[MinOf(MatchingRules(normal_rules, last.url))].attack_type # NONE
    /\ last.result[1].detection_method = "rule_normal"

\* C3: if no rule matches, RAG is enabled and the best case's similarity is >=
\* the threshold, the result has detection_method rag_similarity, predicted "1"
\* when the best case's label is anything but "normal" and "0" when it is "normal".
C3_SimilarityShortcut ==
    (last.stage # "none" /\ NoRuleMatches(last.url) /\ ShortcutApplies(last.url)) =>
        /\ Returned
        /\ last.result[1].detection_method = "rag_similarity"
        /\ \A i \in BestCases(last.url) :
              last.result[1].predicted =
                 (IF metadata[i].label # <<"normal">> THEN P1 ELSE P0)

\* C4: if no rule matches and the similarity shortcut does not fire (no case
\* at the threshold, no case retrieved, or RAG disabled by either flag), detect
\* calls the Classifier exactly once and returns the parser's predicted and
\* attack_type for that response.
C4_ModelFallback ==
    (last.stage # "none" /\ NoRuleMatches(last.url) /\ ~ShortcutApplies(last.url)) =>
        /\ Returned
        /\ last.classifier_calls = 1
        /\ last.result[1].predicted = ParseFastDetectionResponse(last.response).predicted
        /\ last.result[1].attack_type = ParseFastDetectionResponse(last.response).attack_type

\* C5: a detect that ends at RuleCheck or at SimilarityCheck never calls the
\* Classifier, and one that ends at RuleCheck never queries the retrieval engine.
C5_ShortCircuit ==
    Returned =>
        /\ last.result[1].detection_method \in {"rule_normal", "rule_anomalous", "rag_similarity"}
              => last.classifier_calls = 0
        /\ last.result[1].detection_method \in {"rule_normal", "rule_anomalous"}
              => last.retrieval_calls = 0

\* C5 witness: a rule decided the URL although retrieval was available
C5_Witness ==
    /\ Returned /\ RagAvailable
    /\ last.result[1].detection_method \in {"rule_normal", "rule_anomalous"}

\* C6: every returned result carries one detection_method of the five, and a
\* ModelInference verdict is model_with_rag exactly when retrieved cases were
\* put into the prompt, model otherwise.
C6_DetectionMethod ==
    /\ \A i \in 1..Len(all_results) : all_results[i].detection_method \in DetectionMethods
    /\ Returned =>
          /\ last.result[1].detection_method \in DetectionMethods
          /\ last.stage = "ModelInference" =>
                last.result[1].detection_method =
                    (IF last.prompt_cases # <<>> THEN "model_with_rag" ELSE "model")
          /\ last.stage # "ModelInference" =>
                last.result[1].detection_method \notin {"model", "model_with_rag"}

\* C6 witness: a model verdict whose prompt carried retrieved cases
C6_Witness ==
    Returned /\ last.stage = "ModelInference" /\ last.prompt_cases # <<>>

\* The results whose verdict equals the true label
Correct ==
    Cardinality({i \in 1..Len(all_results) :
                    all_results[i].predicted = all_results[i].true_label})

\* Scenario E of the specification: TP=3, TN=5, FP=1, FN=1 over 10 results
ScenarioE == [tp |-> 3, tn |-> 5, fp |-> 1, fn |-> 1, all_results |-> [i \in 1..10 |-> i]]

\* C7: the four confusion-matrix counts of ResultStatistics sum to the number
\* of results, and the reported accuracy is (TP+TN)/total as a percentage
\* (80 for TP=3, TN=5, FP=1, FN=1).
C7_ConfusionIdentity ==
    /\ SameValue(Accuracy(ScenarioE), Frac(80, 1))
    /\ report.status # "none" =>
          /\ report.stats.tp + report.stats.tn + report.stats.fp + report.stats.fn
                = Len(all_results)
          /\ report.stats.tp + report.stats.tn = Correct
          /\ report.status \in {"raised", "saved"} =>
                /\ report.printed_metrics.total = Len(all_results)
                /\ report.printed_metrics.tp + report.printed_metrics.tn
                     + report.printed_metrics.fp + report.printed_metrics.fn
                      = report.printed_metrics.total
                /\ SameValue(report.printed_metrics.accuracy,
                             Frac(100 * Correct, Len(all_results)))
          /\ report.status = "saved" =>
                SameValue(report.files.metrics.accuracy,
                          Frac(100 * Correct, Len(all_results)))

\* C7 witness: a report over results of which some, not all, are correct
C7_Witness ==
    report.status = "saved" /\ 0 < Correct /\ Correct < Len(all_results)

\* Some metric of the result set has a zero denominator
SomeZeroDenominator(st) ==
    \/ st.tp + st.fn = 0
    \/ st.tp + st.fp = 0
    \/ st.fp + st.tn = 0

\* C8: for a non-empty result set in which some metric's denominator is zero,
\* the report and the persisted metrics are produced without an exception and
\* that metric is reported as 0.
C8_ZeroDenominator ==
    (/\ report.status # "none"
     /\ Len(all_results) > 0
     /\ SomeZeroDenominator(report.stats)) =>
        /\ report.status = "saved"
        /\ report.stats.tp + report.stats.fn = 0 =>
              IsZero(report.files.metrics.recall) /\ IsZero(report.files.metrics.fnr)
        /\ report.stats.tp + report.stats.fp = 0 => IsZero(report.files.metrics.precision)
        /\ report.stats.fp + report.stats.tn = 0 => IsZero(report.files.metrics.fpr)
        /\ report.stats.tp = 0 => IsZero(report.files.metrics.f1_score)

\* The sum over the per-method sub-matrices of one of their counts
MethodSum(method_performance, key) ==
    Get(method_performance.rule_engine, key, 0)
        + Get(method_performance.model_inference, key, 0)

\* C9: the per-method sub-matrices partition the results by detection_method:
\* their totals sum to the number of results and their TP/TN/FP/FN sum to the
\* global counts, rag_similarity and model_with_rag results included.
C9_MethodPartition ==
    report.status = "saved" =>
        /\ MethodSum(report.files.metrics.method_performance, "total") = Len(all_results)
        /\ MethodSum(report.files.metrics.method_performance, "tp") = report.files.metrics.tp
        /\ MethodSum(report.files.metrics.method_performance, "tn") = report.files.metrics.tn
        /\ MethodSum(report.files.metrics.method_performance, "fp") = report.files.metrics.fp
        /\ MethodSum(report.files.metrics.method_performance, "fn") = report.files.metrics.fn

\* C10: every misclassified result is kept in full in the persisted error sets
\* and falls in exactly one stage partition: by_rule + by_model == total for
\* the false positives and for the false negatives.
C10_ErrorSetPartition ==
    report.status = "saved" =>
        /\ report.files.false_positives.cases = SelectSeq(all_results, IsFP)
        /\ report.files.false_negatives.cases = SelectSeq(all_results, IsFN)
        /\ report.files.false_positives.by_rule + report.files.false_positives.by_model
              = report.files.false_positives.total_count
        /\ report.files.false_negatives.by_rule + report.files.false_negatives.by_model
              = report.files.false_negatives.total_count
        /\ Len(report.files.false_positives_by_method.rule_based_fp)
              + Len(report.files.false_positives_by_method.model_based_fp)
              = report.files.false_positives_by_method.summary.total
        /\ Len(report.files.false_negatives_by_method.rule_based_fn)
              + Len(report.files.false_negatives_by_method.model_based_fn)
              = report.files.false_negatives_by_method.summary.total

\* The rule-decided results and, for each, the rule that caused the match: the
\* first rule of its class, in file order, whose pattern matches the URL
RuleDecided == {i \in 1..Len(all_results) : ByRule(all_results[i])}

CausingRule(r) ==
    IF r.detection_method = "rule_anomalous"
    THEN <<"anomalous", MinOf(MatchingRules(anomalous_rules, r.url))>>
    ELSE <<"normal", MinOf(MatchingRules(normal_rules, r.url))>>

RECURSIVE TotalMatched(_, _)
TotalMatched(rule_stats, keys) ==
    IF keys = {} THEN 0
    ELSE LET k == CHOOSE x \in keys : TRUE
         IN rule_stats[k].total_matched + TotalMatched(rule_stats, keys \ {k})

\* C11: the per-rule statistics attribute each rule-decided result to the one
\* rule that caused the match: the total_matched of all entries sum to the
\* number of rule-decided results, every entry has correct + false_positive +
\* false_negative = total_matched, and two distinct rules never share an entry.
C11_RuleStatistics ==
    report.status # "none" =>
        LET rule_stats == report.stats.rule_statistics IN
        /\ TotalMatched(rule_stats, DOMAIN rule_stats) = Cardinality(RuleDecided)
        /\ \A k \in DOMAIN rule_stats :
              rule_stats[k].correct + rule_stats[k].false_positive
                  + rule_stats[k].false_negative = rule_stats[k].total_matched
        /\ \A i, j \in RuleDecided :
              CausingRule(all_results[i]) # CausingRule(all_results[j]) =>
                  all_results[i].rule_matched[1].rule_id
                      # all_results[j].rule_matched[1].rule_id
        /\ Cardinality(DOMAIN rule_stats)
              = Cardinality({CausingRule(all_results[i]) : i \in RuleDecided})

\* C12: given zero results, the statistics engine reports a warning, divides
\* nothing by zero, and still persists a metrics snapshot in which every
\* metric is 0.
C12_EmptyInput ==
    (report.status # "none" /\ Len(all_results) = 0) =>
        /\ report.status # "raised"
        /\ "files" \in DOMAIN report
        /\ report.files.metrics.total = 0
        /\ \A k \in {"accuracy", "recall", "precision", "f1_score", "fpr", "fnr"} :
              IsZero(report.files.metrics[k])

\* The text, stripped, starts with neither "0" nor "1": it is none of the
\* expected shapes "0", "1", "label|type" or a leading 0/1 followed by text
NoExpectedShape(text) == Strip(text) = <<>> \/ Strip(text)[1] \notin {"0", "1"}

\* The text carries no type token: no "|", or nothing but blanks after it
NoTypeToken(text) == ~Contains(text, "|") \/ Strip(After(Strip(text), "|")) = <<>>

C14_AttackTypeDefault ==
    parse_result.parser = "fast" =>
        /\ parse_result.predicted = P0 => parse_result.attack_type = NONE
        /\ (parse_result.predicted = P1 /\ NoTypeToken(raw_response)) =>
              parse_result.attack_type = UNKNOWN

\* C16: parse_deep_analysis_response returns all seven keys; a section whose
\* heading is absent is the empty string; a present section's text ends at the
\* next heading or the end of the text, so it never holds a heading marker of
\* a following section, also when its own body is empty.
C16_DeepSections ==
    parse_result.parser = "deep" =>
        /\ DOMAIN parse_result.report = ReportKeys
        /\ \A key \in ReportKeys :
              /\ ~Contains(raw_response, key) => parse_result.report[key] = NoText
              /\ ~Contains(parse_result.report[key], "##")

\* C15: batch_analyze returns one report per input, in input order
\* (output[i].url = input[i].url), after exactly one Classifier call per
\* input; for an empty input it returns an empty list after no call.
C15_BatchAnalyze ==
    pc \in {"returned", "crashed"} =>
        /\ pc = "returned"
        /\ Len(deep_results) = Len(deep_input)
        /\ \A i \in 1..Len(deep_input) : deep_results[i].url = deep_input[i].url
        /\ deep_calls = Len(deep_input)

\* A query of the vector library was answered
Answered == search_result.kind # "none" /\ ~search_result.raised

\* Two results of one answer with the same similarity
TiedResults ==
    /\ Answered
    /\ \E k \in 1..Len(search_result.results) - 1 :
          search_result.results[k].score = search_result.results[k + 1].score

\* C17: the results of a case query and of a knowledge query are in descending
\* order of similarity, and of two results with the same similarity the one
\* inserted first (the lower index position) comes first.
C17_Ranking ==
    Answered =>
        \A k \in 1..Len(search_result.results) - 1 :
            LET a == search_result.results[k]
                b == search_result.results[k + 1]
            IN \/ a.score > b.score
               \/ a.score = b.score /\ a.idx < b.idx

\* The metadata tag of the record at an index position
TypeAt(pos) == Get(metadata[pos], "type", "none")

\* C18: every entry a case query returns has a url_case metadata record and
\* every entry a knowledge query returns has a knowledge metadata record,
\* whatever the order in which cases and knowledge were inserted.
C18_Partitioned ==
    Answered =>
        \A k \in 1..Len(search_result.results) :
            /\ search_result.results[k].idx \in 1..Len(metadata)
            /\ TypeAt(search_result.results[k].idx) = search_result.kind

\* A knowledge chunk inserted between two cases, and a case query that
\* returned both cases
C18_Witness ==
    /\ Answered
    /\ search_result.kind = "url_case"
    /\ Len(metadata) = 3
    /\ TypeAt(1) = "url_case" /\ TypeAt(2) = "knowledge" /\ TypeAt(3) = "url_case"
    /\ {search_result.results[k].idx : k \in 1..Len(search_result.results)} = {1, 3}

\* One persisted file can be read and the other is missing or unreadable
OneWithoutTheOther(files) == (files.index.state = "ok") # (files.metadata.state = "ok")

\* Both persisted files can be read and their element counts differ
CountMismatch(files) ==
    /\ files.index.state = "ok"
    /\ files.metadata.state = "ok"
    /\ Len(files.index.content) # Len(files.metadata.content)

\* The library is as _init_vector_store left it: nothing was added since
AsLoaded ==
    /\ pc = "library"
    /\ index = LoadedStore(store_files).index
    /\ metadata = LoadedStore(store_files).metadata

\* C19: after loading an index file and a metadata file of different element
\* counts, or one of the two without the other, every retrieve_similar_cases
\* and retrieve_knowledge returns no results and none raises.
C19_IntegrityChecked ==
    (AsLoaded /\ (CountMismatch(store_files) \/ OneWithoutTheOther(store_files))
              /\ search_result.kind # "none")
        => (~search_result.raised /\ search_result.results = <<>>)

\* A rule file, the index file or the metadata file of the run was missing or
\* unreadable
ResourceMissing ==
    \/ enabled /\ (anomalous_rules = <<>> \/ normal_rules = <<>>)
    \/ rag_engine /\ (store_files.index.state # "ok" \/ store_files.metadata.state # "ok")

\* C20: in a run with a missing or unreadable rule file, index file or
\* metadata file, detect raises for no URL and returns a verdict "0" or "1"
\* for every URL.
C20_MissingResource ==
    (ResourceMissing /\ last.stage # "none") =>
        /\ ~last.raised
        /\ last.result # <<>>
        /\ last.result[1].predicted \in {P0, P1}

\* C21: an exception raised while one URL is processed is caught at the
\* per-URL boundary: the run goes on with the next URL (it never ends in the
\* crashed state), and the results of the earlier URLs are kept.
C21_PerUrlFailure ==
    last.raised => pc = "stage1"

\* The rules of a rule file whose pattern compiles, in the file's order
RECURSIVE WellFormed(_)
WellFormed(rules_config) ==
    IF rules_config = <<>> THEN <<>>
    ELSE IF rules_config[1].pattern = BadPattern THEN WellFormed(Tail(rules_config))
    ELSE <<rules_config[1]>> \o WellFormed(Tail(rules_config))

\* The rules are those of the configuration, one for one
SameRules(rules, rules_config) ==
    /\ Len(rules) = Len(rules_config)
    /\ \A i \in 1..Len(rules) :
          /\ rules[i].rule_id = rules_config[i].id
          /\ rules[i].pattern = rules_config[i].pattern

\* C22: after load_rule_engine has read rule files with rules whose pattern
\* does not compile, the engine holds every other rule of each file, those
\* before and those after a malformed one, in the file's order.
C22_MalformedRuleSkipped ==
    (pc = "rules" /\ rule_files.enabled) =>
        /\ SameRules(anomalous_rules, WellFormed(rule_files.anomalous))
        /\ SameRules(normal_rules, WellFormed(rule_files.normal))

\* What RuleEngine.detect returns when it decides nothing
NoRuleDecision(verdict) ==
    /\ verdict.prediction = NoText
    /\ verdict.matched_rules = <<>>
    /\ verdict.rule_type = "none"

\* C24: RuleEngine.detect returns at most one matched rule: the first rule of
\* the anomalous list that matches the URL; if none matches, the first
\* matching rule of the normal list; and (None, [], "none") if no rule matches
\* or the engine is disabled.
C24_FirstMatchWins ==
    rule_verdict.url # 0 =>
        LET u == rule_verdict.url
            A == MatchingRules(anomalous_rules, u)
            N == MatchingRules(normal_rules, u)
        IN /\ Len(rule_verdict.matched_rules) <= 1
           /\ IF ~enabled THEN NoRuleDecision(rule_verdict)
              ELSE IF A # {}
              THEN /\ rule_verdict.prediction = P1
                   /\ rule_verdict.rule_type = "anomalous"
                   /\ rule_verdict.matched_rules = Match(anomalous_rules[MinOf(A)], u)
              ELSE IF N # {}
              THEN /\ rule_verdict.prediction = P0
                   /\ rule_verdict.rule_type = "normal"
                   /\ rule_verdict.matched_rules = Match(normal_rules[MinOf(N)], u)
              ELSE NoRuleDecision(rule_verdict)

\* Two different anomalous rules and a normal rule match the URL, and the
\* verdict names the first anomalous one
C24_Witness ==
    /\ rule_verdict.url # 0
    /\ enabled
    /\ LET A == MatchingRules(anomalous_rules, rule_verdict.url) IN
         /\ \E i \in A, j \in A :
               i < j /\ anomalous_rules[i].rule_id # anomalous_rules[j].rule_id
         /\ MatchingRules(normal_rules, rule_verdict.url) # {}
         /\ rule_verdict.matched_rules # <<>>
         /\ rule_verdict.matched_rules[1].rule_id = anomalous_rules[MinOf(A)].rule_id

\* A generation option of model.fast_detection is missing
OptionMissing == ~(GenerationOptions \subseteq DOMAIN options.fast_detection)

\* C23: under a configuration with missing options, detect does not fail: it
\* returns a result for every URL (told apart from the failure of a detector
\* with use_rag and no RAG engine, which fails with all options present).
C23_MissingOptions ==
    (OptionMissing /\ ~(use_rag /\ ~rag_engine) /\ last.stage # "none") =>
        /\ ~last.raised
        /\ last.result # <<>>

\* The threshold and the number of cases the configuration names as
\* rag.similarity_threshold and rag.top_k
ConfiguredThreshold == Get(options.rag, "similarity_threshold", DefaultThreshold)
ConfiguredTopK == Get(options.rag, "top_k", DefaultTopK)

\* C25: for a URL no rule decides, with cases to retrieve, detect ends at the
\* similarity shortcut exactly when the best case's similarity is at or above
\* rag.similarity_threshold; below it, detect goes on to ModelInference.
C25_ThresholdCutoff ==
    (last.stage # "none" /\ NoRuleMatches(last.url) /\ RagAvailable /\ CasePositions # {}) =>
        /\ BestSimilarity(last.url) >= ConfiguredThreshold => last.stage = "SimilarityCheck"
        /\ BestSimilarity(last.url) < ConfiguredThreshold => last.stage = "ModelInference"

\* C26: a rag_similarity verdict carries the retrieved cases as evidence, and
\* its attack_type is the label of the best of them, unchanged.
C26_ShortcutAttackType ==
    (Returned /\ last.result[1].detection_method = "rag_similarity") =>
        /\ "similar_cases" \in DOMAIN last.result[1]
        /\ last.result[1].similar_cases # <<>>
        /\ last.result[1].attack_type = last.result[1].similar_cases[1].label

\* The metadata record at a position is the one stored for the text whose
\* vector is at that position of the index
Corresponds(i) ==
    LET text == LibraryTexts[index.vectors[i]] IN
    IF "url" \in DOMAIN text
    THEN Get(metadata[i], "url", NoText) = text.url
    ELSE Get(metadata[i], "attack_id", NoText) = text.attack_id

HasCases == \E i \in 1..Len(metadata) : "label" \in DOMAIN metadata[i]

\* C28: every record a build or an addition stored carries its partition tag,
\* and a case query on a library that holds labelled cases returns at least
\* one of them.
C28_BuiltCasesRetrieved ==
    pc = "library" =>
        /\ \A i \in 1..Len(metadata) : "type" \in DOMAIN metadata[i]
        /\ (Answered /\ search_result.kind = "url_case" /\ HasCases) =>
              search_result.results # <<>>

StatisticsInvoked ==
    /\ pc = "done"
    /\ Len(returned) = 2
    /\ all_results = returned[1] \o returned[2]
    /\ \A i \in 1..Len(returned[1]) : returned[1][i].true_label = P0
    /\ \A i \in 1..Len(returned[2]) : returned[2][i].true_label = P1
    /\ deep_input = SelectSeq(all_results, LAMBDA r : r.predicted = P1)

\* C30: every run of the main two-stage flow, whatever the number of lines of
\* each data file, eventually invokes the statistics with exactly the Stage-1
\* results of the normal file followed by those of the attack file, in line
\* order and labelled "0" and "1", and the DeepAnalyzer with exactly the
\* results predicted "1".
C30_ResultsReachStatistics == <>StatisticsInvoked

====
